---- MODULE Spec2Model ----
(***************************************************************************)
(* Model of supabase-to-hooks: run() reads the Database type of a          *)
(* declaration file and writes a tree of generated files.                  *)
(*                                                                         *)
(* A path is a tuple of names relative to the output directory (<<>> is    *)
(* the output directory itself).  A "world" is the file system seen by one *)
(* run: the directories, the files with their content, the directories     *)
(* this run created and the ordered log of the files this run wrote.       *)
(* The run is carried out on two worlds in lockstep: `out` starts from an  *)
(* arbitrary prior content of the output directory, `ref` from an output   *)
(* directory that does not exist yet.                                      *)
(*                                                                         *)
(* Four further specifications share the module: CliSpec is the command    *)
(* line action of index.ts (variable cli), HookSpec is the code the table  *)
(* hooks template generates, run against a query cache, QuerySpec is the   *)
(* list query that code builds from its filters (both on variable hook),   *)
(* and ConvSpec applies pascalCase and camelCase to names (variable conv). *)
(* Each specification leaves the variables of the others at rest.          *)
(***************************************************************************)
EXTENDS Integers, Sequences, FiniteSets, TLC

VARIABLES schema, opts, pc, idx, err, out, ref, cli, hook, conv

vars == <<schema, opts, pc, idx, err, out, ref, cli, hook, conv>>

None == "none"

\* ---------------------------------------------------------------- bounds
MaxTables == 2
MaxFunctions == 2
MaxEnums == 2

\* ------------------------------------------------------- sequence helpers
Range(s) == {s[i] : i \in 1..Len(s)}

\* a JS Set keeps insertion order: adding a present element changes nothing
SetAdd(s, x) == IF x \in Range(s) THEN s ELSE Append(s, x)

RECURSIVE SetAddAll(_, _)
SetAddAll(s, xs) ==
  IF xs = <<>> THEN s ELSE SetAddAll(SetAdd(s, Head(xs)), Tail(xs))

RECURSIVE Flatten(_)
Flatten(ss) == IF ss = <<>> THEN <<>> ELSE Head(ss) \o Flatten(Tail(ss))

\* ------------------------------------------------------------ characters
LowerCase == <<"a","b","c","d","e","f","g","h","i","j","k","l","m",
               "n","o","p","q","r","s","t","u","v","w","x","y","z">>
UpperCase == <<"A","B","C","D","E","F","G","H","I","J","K","L","M",
               "N","O","P","Q","R","S","T","U","V","W","X","Y","Z">>
Digits == {"0","1","2","3","4","5","6","7","8","9"}

\* the regular-expression class \w
IsWordChar(c) == c \in Range(LowerCase) \cup Range(UpperCase) \cup Digits \cup {"_"}

toUpperCase(c) ==
  IF c \in Range(LowerCase)
    THEN UpperCase[CHOOSE i \in 1..26 : LowerCase[i] = c]
    ELSE c

toLowerCase(c) ==
  IF c \in Range(UpperCase)
    THEN LowerCase[CHOOSE i \in 1..26 : UpperCase[i] = c]
    ELSE c

\* the alternative '-' left out of the pattern: /(^|_)(\w)/
MatchLenUnderscoreOnly(s, i) ==
  IF i = 1 /\ IsWordChar(s[i]) THEN 1
  ELSE IF s[i] = "_" /\ i < Len(s) /\ IsWordChar(s[i + 1]) THEN 2
  ELSE 0

\* length of the match of /(^|_|-)(\w)/ that starts at position i of s
\* (0 when there is none); the alternatives are tried in order
MatchLen(s, i) ==
  IF i = 1 /\ IsWordChar(s[i]) THEN 1
  ELSE IF s[i] \in {"_", "-"} /\ i < Len(s) /\ IsWordChar(s[i + 1]) THEN 2
  ELSE 0

RECURSIVE pascalFrom(_, _)
pascalFrom(s, i) ==
  IF i > Len(s) THEN <<>>
  ELSE LET n == MatchLen(s, i) IN
    IF n = 0 THEN <<s[i]>> \o pascalFrom(s, i + 1)
    ELSE <<toUpperCase(s[i + n - 1])>> \o pascalFrom(s, i + n)

\* str.replace(/(^|_|-)(\w)/g, (_, __, letter) => letter.toUpperCase())
pascalCase(s) == pascalFrom(s, 1)

RECURSIVE camelFrom(_, _)
camelFrom(s, i) ==
  IF i > Len(s) THEN <<>>
  ELSE LET n == MatchLen(s, i) IN
    IF n = 0 THEN <<s[i]>> \o camelFrom(s, i + 1)
    ELSE <<IF i = 1 THEN toLowerCase(s[i + n - 1]) ELSE toUpperCase(s[i + n - 1])>>
           \o camelFrom(s, i + n)

\* the same replacement, lower-casing the letter of a match at offset 0
camelCase(s) == camelFrom(s, 1)

\* the characters of the names the schemas below use
Spell(n) ==
  CASE n = "users"   -> <<"u","s","e","r","s">>
    [] n = "posts"   -> <<"p","o","s","t","s">>
    [] n = "get_x"   -> <<"g","e","t","_","x">>
    [] n = "_priv"   -> <<"_","p","r","i","v">>
    [] n = "old_fn"  -> <<"o","l","d","_","f","n">>
    [] n = "post_status" -> <<"p","o","s","t","_","s","t","a","t","u","s">>
    [] n = "user-role"   -> <<"u","s","e","r","-","r","o","l","e">>
    [] n = "kind"    -> <<"k","i","n","d">>

\* no name counts as private
startsWithUnderscoreNever(n) == FALSE

\* String.prototype.startsWith('_')
startsWithUnderscore(n) == Len(Spell(n)) > 0 /\ Spell(n)[1] = "_"

\* ------------------------------------------------------------ file system
EmptyWorld == [dirs |-> {}, files |-> <<>>, made |-> {}, log |-> <<>>]

Prefixes(p) == {SubSeq(p, 1, n) : n \in 0..Len(p)}

\* fs.existsSync
existsSync(w, p) == p \in w.dirs \/ p \in DOMAIN w.files

\* if (!fs.existsSync(dir)) fs.mkdirSync(dir, { recursive: true })
mkdirIfMissing(w, p) ==
  IF existsSync(w, p) THEN w
  ELSE [w EXCEPT !.dirs = @ \cup Prefixes(p),
                 !.made = @ \cup (Prefixes(p) \ w.dirs)]

\* fs.writeFileSync
writeFileSync(w, p, c) ==
  [w EXCEPT !.files = (p :> c) @@ @, !.log = Append(@, p)]

\* the names fs.readdirSync can return, in the order it returns them
DirOrder == <<"_priv", "get_x", "index.ts", "old_fn">>

\* fs.readdirSync(dir): the entries directly under dir
readdirSync(w, dir) ==
  SelectSeq(DirOrder, LAMBDA n : existsSync(w, Append(dir, n)))

written(w) == Range(w.log)

\* -------------------------------------------------------------- type text
\* The text of an object type, as Type.getText() prints it on one line, is
\* the sequence of its properties; a property is the sequence of the shared
\* type names it references as import("<input path>").Name, in print order.

\* the path part of /import\(".*\/moku\/lib\/database\.types"\)\./
pathMatchesMoku(p) ==
  /\ Len(p) >= 3
  /\ SubSeq(p, Len(p) - 2, Len(p)) = <<"moku", "lib", "database.types">>

\* the path part of /import\(".*database\.types(?:\.ts)?"\)\./
pathMatchesDatabaseTypes(p) ==
  Len(p) >= 1 /\ p[Len(p)] = "database.types"

\* findBaseTypes: the greedy .* makes the single match on a line run from
\* the first import(" to the last reference, whose name is the capture
findBaseTypes(text, p) ==
  LET refs == Flatten(text) IN
    IF pathMatchesMoku(p) /\ refs # <<>> THEN <<refs[Len(refs)]>> ELSE <<>>

\* formatTypeDefinition: an object of two or more properties is reprinted
\* with one property per line, a shorter one is kept on its line
formatTypeDefinition(text) ==
  IF Len(text) <= 1 THEN <<Flatten(text)>> ELSE text

\* the replace(/import\(".*<path>"\)\./g, '') of one line: the span from
\* the first import(" up to the last reference's dot is removed
cleanLine(line, matches) ==
  [i \in 1..Len(line) |->
     [name |-> line[i],
      form |-> IF ~matches THEN "import"
               ELSE IF i = Len(line) THEN "bare" ELSE "removed"]]

cleanType(text, matches) ==
  LET lines == formatTypeDefinition(text) IN
    [i \in 1..Len(lines) |-> cleanLine(lines[i], matches)]

\* ------------------------------------------------------------- base types
RECURSIVE extractAllBaseTypes(_, _, _)
extractAllBaseTypes(tables, p, acc) ==
  IF tables = <<>> THEN acc
  ELSE LET t == Head(tables) IN
    extractAllBaseTypes(Tail(tables), p,
      SetAddAll(SetAddAll(SetAddAll(acc, findBaseTypes(t.row, p)),
                          findBaseTypes(t.insert, p)),
                findBaseTypes(t.update, p)))

createBaseTypesFile(w, baseTypes) ==
  IF Len(baseTypes) = 0 THEN w
  ELSE writeFileSync(w, <<"base-types.ts">>,
                     [kind |-> "baseTypes", exports |-> baseTypes])

\* ------------------------------------------------------------------ tables
extractTableTypes(w, t, p) ==
  LET tableBaseTypes ==
        SetAddAll(SetAddAll(findBaseTypes(t.row, p), findBaseTypes(t.insert, p)),
                  findBaseTypes(t.update, p))
  IN writeFileSync(w, <<t.name, "types.ts">>,
       [kind    |-> "tableTypes",
        table   |-> t.name,
        pascal  |-> pascalCase(Spell(t.name)),
        imports |-> tableBaseTypes,
        row     |-> cleanType(t.row, pathMatchesMoku(p)),
        insert  |-> cleanType(t.insert, pathMatchesMoku(p)),
        update  |-> cleanType(t.update, pathMatchesMoku(p))])

createModuleIndexFile(w, tableName) ==
  writeFileSync(w, <<tableName, "index.ts">>,
    [kind |-> "moduleIndex", table |-> tableName,
     exports |-> <<"./types", "./hooks">>])

\* one iteration of the loop of extractTablesByModule
extractTableModule(w, t, p) ==
  createModuleIndexFile(
    extractTableTypes(mkdirIfMissing(w, <<t.name>>), t, p), t.name)

\* ----------------------------------------------------------- relationships
\* The text of a Relationships type: the quote character of its string
\* literals, the separator of its object members, and the foreign keys it
\* lists; present is FALSE for a table without a Relationships property.

\* The text is the one Type.getText() prints: double-quoted string literals
\* and ';' after every member of an object type.
\* JSON.parse of the rewritten text succeeds on "[]", and otherwise only if
\* the rewriting left double-quoted strings (it escapes the double quotes it
\* finds and turns single quotes into double quotes) and comma separators
jsonParses(rel) ==
  LET quoteAfterRewrite == IF rel.quote = "double" THEN "escaped" ELSE "double"
  IN rel.keys = <<>> \/ (quoteAfterRewrite = "double" /\ rel.sep = ",")

\* the foreign keys the Relationships type lists, whatever its text
extractTableRelationshipsAsListed(t) ==
  IF ~t.rel.present THEN <<>> ELSE t.rel.keys

\* no Relationships property, or a text that does not parse: no relationships
extractTableRelationships(t) ==
  IF ~t.rel.present THEN <<>>
  ELSE IF jsonParses(t.rel) THEN t.rel.keys
  ELSE <<>>

saveTableRelationships(w, relationships, moduleDir) ==
  IF Len(relationships) = 0 THEN w
  ELSE writeFileSync(w, Append(moduleDir, "relationships.json"),
                     [kind |-> "relationshipsJson", keys |-> relationships])

RECURSIVE relatedTables(_, _)
relatedTables(relationships, acc) ==
  IF relationships = <<>> THEN acc
  ELSE relatedTables(Tail(relationships),
                     SetAdd(acc, Head(relationships).referencedRelation))

generateRelationshipTypes(w, tableName, relationships, moduleDir) ==
  IF Len(relationships) = 0 THEN w
  ELSE writeFileSync(w, Append(moduleDir, "relations.ts"),
    [kind    |-> "relations",
     table   |-> tableName,
     imports |-> SelectSeq(relatedTables(relationships, <<>>),
                           LAMBDA r : r # tableName),
     relations |->
       [i \in 1..Len(relationships) |->
          [foreignKeyName |-> relationships[i].foreignKeyName,
           rowOf |-> relationships[i].referencedRelation,
           type  |-> IF relationships[i].isOneToOne
                       THEN "Row | null" ELSE "Row[]"]]])

\* only the module index is rewritten, hooks.ts is left out
generateTableHooksIndexOnly(w, tableName, moduleDir, supabaseImportPath) ==
  writeFileSync(w, Append(moduleDir, "index.ts"),
    [kind |-> "tableIndex", exports |-> <<"./types", "./hooks">>])

\* the module's index.ts rewritten before hooks.ts is written
generateTableHooksIndexFirst(w, tableName, moduleDir, supabaseImportPath) ==
  LET hasRelations == existsSync(w, Append(moduleDir, "relations.ts"))
      w1 == writeFileSync(w, Append(moduleDir, "index.ts"),
              [kind |-> "tableIndex",
               exports |-> IF hasRelations
                             THEN <<"./types", "./hooks", "./relations">>
                             ELSE <<"./types", "./hooks">>])
  IN writeFileSync(w1, Append(moduleDir, "hooks.ts"),
       [kind |-> "tableHooks", table |-> tableName,
        pascal |-> pascalCase(Spell(tableName)),
        supabase |-> supabaseImportPath,
        hasRelations |-> hasRelations])

\* generateTableHooks: hooks.ts, then the module's index.ts once more
generateTableHooks(w, tableName, moduleDir, supabaseImportPath) ==
  LET hasRelations == existsSync(w, Append(moduleDir, "relations.ts"))
      w1 == writeFileSync(w, Append(moduleDir, "hooks.ts"),
              [kind |-> "tableHooks", table |-> tableName,
               pascal |-> pascalCase(Spell(tableName)),
               supabase |-> supabaseImportPath,
               hasRelations |-> hasRelations])
  IN writeFileSync(w1, Append(moduleDir, "index.ts"),
       [kind |-> "tableIndex",
        exports |-> IF hasRelations
                      THEN <<"./types", "./hooks", "./relations">>
                      ELSE <<"./types", "./hooks">>])

\* one iteration of the loop of run() over the tables
tableHooksStep(w, t, supabaseImportPath) ==
  LET moduleDir == <<t.name>>
      relationships == extractTableRelationships(t)
  IN generateTableHooks(
       generateRelationshipTypes(
         saveTableRelationships(w, relationships, moduleDir),
         t.name, relationships, moduleDir),
       t.name, moduleDir, supabaseImportPath)

\* ------------------------------------------------------------------- enums
\* An enum is its name and the member types of its declaration, in
\* declaration order; lit tells a string literal type from any other
\* literal type.

\* The literal types in the order the compiler creates them, each once: the
\* loop of extractEnums asks for the type of each enum in property order,
\* and the type of a union is made from its members in declaration order
\* (the tables of the schemas below mention no enum, so nothing creates a
\* literal type earlier). The position of a type here stands for its type id.
typeIds(enums) ==
  SetAddAll(<<>>, Flatten([i \in 1..Len(enums) |-> enums[i].declared]))

\* Type.getUnionTypes() of enum i (for a type that is no union, the type
\* itself): the compiler keeps the constituents of a union once each,
\* sorted by type id
getUnionTypes(enums, i) ==
  SelectSeq(typeIds(enums), LAMBDA t : t \in Range(enums[i].declared))

\* every member kept, string literal or not
enumLineUnfiltered(enumName, unionTypes) ==
  [name |-> pascalCase(Spell(enumName)),
   rhs  |-> [i \in 1..Len(unionTypes) |-> unionTypes[i].val]]

enumLine(enumName, unionTypes) ==
  [name |-> pascalCase(Spell(enumName)),
   rhs  |-> LET stringLiterals == SelectSeq(unionTypes, LAMBDA t : t.lit)
            IN [i \in 1..Len(stringLiterals) |-> stringLiterals[i].val]]

extractEnums(w, enums) ==
  writeFileSync(w, <<"enums.ts">>,
    [kind |-> "enums",
     lines |-> [i \in 1..Len(enums) |->
                  enumLine(enums[i].name, getUnionTypes(enums, i))]])

\* --------------------------------------------------------------- functions
publicFunctionNames(fns) ==
  LET kept == SelectSeq(fns, LAMBDA f : ~startsWithUnderscore(f.name))
  IN [i \in 1..Len(kept) |-> kept[i].name]

extractFunctionTypes(w, f, p) ==
  LET functionDir == <<"functions", f.name>> IN
    writeFileSync(mkdirIfMissing(w, functionDir), Append(functionDir, "types.ts"),
      [kind    |-> "functionTypes",
       fn      |-> f.name,
       pascal  |-> pascalCase(Spell(f.name)),
       imports |-> SetAddAll(findBaseTypes(f.args, p), findBaseTypes(f.returns, p)),
       args    |-> cleanType(f.args, pathMatchesDatabaseTypes(p)),
       returns |-> cleanType(f.returns, pathMatchesDatabaseTypes(p))])

RECURSIVE extractFunctionsLoop(_, _, _)
extractFunctionsLoop(w, fns, p) ==
  IF fns = <<>> THEN w
  ELSE IF startsWithUnderscore(Head(fns).name)
    THEN extractFunctionsLoop(w, Tail(fns), p)
    ELSE extractFunctionsLoop(extractFunctionTypes(w, Head(fns), p), Tail(fns), p)

createFunctionsIndexFile(w, functionNames) ==
  writeFileSync(w, <<"functions", "index.ts">>,
    [kind |-> "functionsIndex", exports |-> functionNames])

extractFunctions(w, fns, p) ==
  createFunctionsIndexFile(
    extractFunctionsLoop(mkdirIfMissing(w, <<"functions">>), fns, p),
    publicFunctionNames(fns))

generateFunctionHooks(w, functionName, moduleDir, supabaseImportPath) ==
  writeFileSync(
    writeFileSync(w, Append(moduleDir, "hooks.ts"),
      [kind |-> "functionHooks", fn |-> functionName,
       exports |-> <<"query", "mutation", "call">>,
       supabase |-> supabaseImportPath]),
    Append(moduleDir, "index.ts"),
    [kind |-> "functionIndex", fn |-> functionName,
     exports |-> <<"./types", "./hooks">>])

RECURSIVE generateFunctionHooksLoop(_, _, _)
generateFunctionHooksLoop(w, names, supabaseImportPath) ==
  IF names = <<>> THEN w
  ELSE LET n == Head(names)
           moduleDir == <<"functions", n>>
       IN IF n # "index.ts" /\ moduleDir \in w.dirs
            THEN generateFunctionHooksLoop(
                   generateFunctionHooks(w, n, moduleDir, supabaseImportPath),
                   Tail(names), supabaseImportPath)
            ELSE generateFunctionHooksLoop(w, Tail(names), supabaseImportPath)

\* every directory found under functions/ gets hooks
generateAllFunctionHooks(w, supabaseImportPath) ==
  generateFunctionHooksLoop(w, readdirSync(w, <<"functions">>), supabaseImportPath)

\* ----------------------------------------------------------------- storage
generateStorageModule(w, supabaseImportPath) ==
  LET moduleDir == <<"storage">>
      w0 == mkdirIfMissing(w, moduleDir)
      w1 == writeFileSync(w0, Append(moduleDir, "types.ts"), [kind |-> "storageTypes"])
      w2 == writeFileSync(w1, Append(moduleDir, "hooks.ts"),
              [kind |-> "storageHooks", supabase |-> supabaseImportPath])
  IN writeFileSync(w2, Append(moduleDir, "index.ts"),
       [kind |-> "storageIndex", exports |-> <<"./types", "./hooks">>])

\* -------------------------------------------------------------- main index
\* the tables exported in reverse order
createMainIndexFileReversed(w, tables) ==
  writeFileSync(w, <<"index.ts">>,
    [kind |-> "mainIndex",
     reexports |-> <<"./base-types", "./enums", "./storage">>,
     tables |-> [i \in 1..Len(tables) |-> tables[Len(tables) + 1 - i].name]])

createMainIndexFile(w, tables) ==
  writeFileSync(w, <<"index.ts">>,
    [kind |-> "mainIndex",
     reexports |-> <<"./base-types", "./enums", "./storage">>,
     tables |-> [i \in 1..Len(tables) |-> tables[i].name]])

\* ------------------------------------------------------ the steps of run()
\* the option ignored: the default path whatever the caller gave
supabaseImportPathIgnored(o) == "@/lib/supabase"

\* const { supabaseImportPath = '@/lib/supabase' } = options
supabaseImportPath(o) ==
  IF o.supabaseImportPath = None THEN "@/lib/supabase" ELSE o.supabaseImportPath

\* the check of the public property left out
locateErrorAliasOnly(s) ==
  IF ~s.hasDatabaseAlias THEN "TypeAliasNotFound" ELSE None

\* getTypeAliasOrThrow('Database'), then getTypeProperty(dbType, 'public')
locateError(s) ==
  IF ~s.hasDatabaseAlias THEN "TypeAliasNotFound"
  ELSE IF ~s.hasPublic THEN "No \"public\" property found in Database"
  ELSE None

baseTypesStep(w, s) ==
  createBaseTypesFile(w,
    IF s.hasTables THEN extractAllBaseTypes(s.tables, s.inputFile, <<>>)
    ELSE <<>>)

enumsStep(w, s) ==
  IF s.hasEnums THEN extractEnums(w, s.enums) ELSE w

functionsStep(w, s) ==
  IF s.hasFunctions THEN extractFunctions(w, s.functions, s.inputFile) ELSE w

functionHooksStep(w, o) ==
  IF existsSync(w, <<"functions">>)
    THEN generateAllFunctionHooks(w, supabaseImportPath(o))
    ELSE w

\* the main index written without looking for Tables
mainIndexStepAlways(w, s) == createMainIndexFile(w, s.tables)

mainIndexStep(w, s) ==
  IF s.hasTables THEN createMainIndexFile(w, s.tables) ELSE w

RECURSIVE extractTablesByModule(_, _, _)
extractTablesByModule(w, tables, p) ==
  IF tables = <<>> THEN w
  ELSE extractTablesByModule(extractTableModule(w, Head(tables), p), Tail(tables), p)

RECURSIVE tableHooksLoop(_, _, _)
tableHooksLoop(w, tables, o) ==
  IF tables = <<>> THEN w
  ELSE tableHooksLoop(tableHooksStep(w, Head(tables), supabaseImportPath(o)),
                      Tail(tables), o)

\* a whole successful run() on world w
run(w, s, o) ==
  LET w1 == baseTypesStep(mkdirIfMissing(w, <<>>), s)
      w2 == IF s.hasTables
              THEN tableHooksLoop(extractTablesByModule(w1, s.tables, s.inputFile),
                                  s.tables, o)
              ELSE w1
      w3 == enumsStep(w2, s)
      w4 == IF s.hasFunctions
              THEN functionHooksStep(functionsStep(w3, s), o)
              ELSE w3
  IN mainIndexStep(generateStorageModule(w4, supabaseImportPath(o)), s)

\* what a finished run leaves on disk for the next one
leftBy(w) == [w EXCEPT !.made = {}, !.log = <<>>]

\* ------------------------------------------------------------------ inputs
Prim2    == << <<>>, <<>> >>
JsonText == << <<>>, <<"Json">> >>
TwoRefs  == << <<"Json">>, <<"Other">> >>
UnionRef == << <<"Json", "Other">> >>
OneOther == << <<"Other">> >>

Key(fk, one, target) ==
  [foreignKeyName |-> fk, columns |-> <<"c">>, isOneToOne |-> one,
   referencedRelation |-> target, referencedColumns |-> <<"id">>]

\* the text Type.getText() gives for a Relationships type
PrintedRel(keys) == [present |-> TRUE, quote |-> "double", sep |-> ";", keys |-> keys]
NoRel == [present |-> FALSE, quote |-> "double", sep |-> ";", keys |-> <<>>]

TableNames == {"users", "posts"}

TableKinds ==
  { [row |-> Prim2, insert |-> Prim2, update |-> Prim2, rel |-> NoRel],
    [row |-> JsonText, insert |-> JsonText, update |-> JsonText,
     rel |-> PrintedRel(<<Key("fk_a", FALSE, "users")>>)],
    [row |-> TwoRefs, insert |-> JsonText, update |-> Prim2,
     rel |-> PrintedRel(<<>>)],
    [row |-> UnionRef, insert |-> OneOther, update |-> Prim2,
     rel |-> PrintedRel(<<Key("fk_a", TRUE, "users"), Key("fk_b", FALSE, "posts")>>)] }

Table(n, k) ==
  [name |-> n, row |-> k.row, insert |-> k.insert, update |-> k.update, rel |-> k.rel]

\* sequences of tables with distinct names, in either declaration order
TableSeqs ==
  {<<>>}
  \cup (IF MaxTables >= 1
          THEN {<<Table(n, k)>> : n \in TableNames, k \in TableKinds} ELSE {})
  \cup (IF MaxTables >= 2
          THEN {ts \in {<<Table(n1, k1), Table(n2, k2)>> :
                          n1 \in TableNames, n2 \in TableNames,
                          k1 \in TableKinds, k2 \in TableKinds} :
                  ts[1].name # ts[2].name}
          ELSE {})

Function(n) == [name |-> n, args |-> OneOther, returns |-> JsonText]

FunctionNames == {"get_x", "_priv"}

FunctionSeqs ==
  {<<>>}
  \cup (IF MaxFunctions >= 1 THEN {<<Function(n)>> : n \in FunctionNames} ELSE {})
  \cup (IF MaxFunctions >= 2
          THEN {fs \in {<<Function(n1), Function(n2)>> :
                          n1 \in FunctionNames, n2 \in FunctionNames} :
                  fs[1].name # fs[2].name}
          ELSE {})

Lit(v)   == [lit |-> TRUE, val |-> v]
NonLit(v) == [lit |-> FALSE, val |-> v]

\* enums as they are declared; kind declares two members of post_status in
\* the other order
EnumSet ==
  { [name |-> "post_status", declared |-> <<Lit("draft"), NonLit("42"), Lit("published")>>],
    [name |-> "user-role", declared |-> <<Lit("admin")>>],
    [name |-> "kind", declared |-> <<Lit("published"), Lit("draft")>>] }

EnumSeqs ==
  {<<>>}
  \cup (IF MaxEnums >= 1 THEN {<<e>> : e \in EnumSet} ELSE {})
  \cup (IF MaxEnums >= 2
          THEN {es \in {<<e1, e2>> : e1 \in EnumSet, e2 \in EnumSet} :
                  es[1].name # es[2].name}
          ELSE {})

InputFiles ==
  { <<"app", "moku", "lib", "database.types">>,
    <<"app", "types", "database.types">> }

\* a property public does not have has no members
Schemas ==
  { s \in [hasDatabaseAlias : {TRUE}, hasPublic : {TRUE}, inputFile : InputFiles,
           hasTables : BOOLEAN, tables : TableSeqs,
           hasFunctions : BOOLEAN, functions : FunctionSeqs,
           hasEnums : BOOLEAN, enums : EnumSeqs] :
      /\ ~s.hasTables => s.tables = <<>>
      /\ ~s.hasFunctions => s.functions = <<>>
      /\ ~s.hasEnums => s.enums = <<>> }
  \cup
  { s \in [hasDatabaseAlias : BOOLEAN, hasPublic : {FALSE}, inputFile : InputFiles,
           hasTables : {FALSE}, tables : {<<>>},
           hasFunctions : {FALSE}, functions : {<<>>},
           hasEnums : {FALSE}, enums : {<<>>}] :
      s.hasDatabaseAlias \/ ~s.hasPublic }

Options == [supabaseImportPath : {None, "./client"}]

\* a schema an earlier run may have been made over
EarlierSchema ==
  [hasDatabaseAlias |-> TRUE, hasPublic |-> TRUE,
   inputFile |-> <<"app", "moku", "lib", "database.types">>,
   hasTables |-> TRUE,
   tables |-> <<Table("users",
                  [row |-> JsonText, insert |-> Prim2, update |-> Prim2,
                   rel |-> PrintedRel(<<Key("fk_a", FALSE, "posts")>>)])>>,
   hasFunctions |-> TRUE,
   functions |-> <<Function("old_fn")>>,
   hasEnums |-> FALSE,
   enums |-> <<>>]

\* prior contents of the output directory: it does not exist; it holds
\* unrelated files and directories; an earlier run left its output in it
PriorWorlds ==
  { EmptyWorld,
    [dirs |-> {<<>>, <<"misc">>},
     files |-> (<<"notes.txt">> :> [kind |-> "unrelated"])
               @@ (<<"misc", "a.txt">> :> [kind |-> "unrelated"]),
     made |-> {}, log |-> <<>>],
    leftBy(run(EmptyWorld, EarlierSchema, [supabaseImportPath |-> None])) }

\* the variables of a part of the program that is not running
CliAtRest == [pc |-> "rest"]
HookAtRest == [pc |-> "rest"]
ConvAtRest == [pc |-> "rest"]

\* ------------------------------------------------------------ specification
Init ==
  /\ schema \in Schemas
  /\ opts \in Options
  /\ out \in PriorWorlds
  /\ ref = EmptyWorld
  /\ pc = "start"
  /\ idx = 1
  /\ err = None
  /\ cli = CliAtRest
  /\ hook = HookAtRest
  /\ conv = ConvAtRest

HasRows(s) == s.hasTables /\ Len(s.tables) > 0

\* lines 26-51: load the Database type and its public property, or throw
Locate ==
  /\ pc = "start"
  /\ err' = locateError(schema)
  /\ pc' = IF locateError(schema) = None THEN "mkdir" ELSE "rejected"
  /\ UNCHANGED <<schema, opts, idx, out, ref, cli, hook, conv>>

\* lines 53-56
MakeOutputDir ==
  /\ pc = "mkdir"
  /\ out' = mkdirIfMissing(out, <<>>)
  /\ ref' = mkdirIfMissing(ref, <<>>)
  /\ pc' = "base"
  /\ UNCHANGED <<schema, opts, idx, err, cli, hook, conv>>

\* lines 58-67
BaseTypes ==
  /\ pc = "base"
  /\ out' = baseTypesStep(out, schema)
  /\ ref' = baseTypesStep(ref, schema)
  /\ pc' = IF HasRows(schema) THEN "tables" ELSE "enums"
  /\ UNCHANGED <<schema, opts, idx, err, cli, hook, conv>>

\* line 71: one iteration of extractTablesByModule
ExtractTable ==
  /\ pc = "tables"
  /\ out' = extractTableModule(out, schema.tables[idx], schema.inputFile)
  /\ ref' = extractTableModule(ref, schema.tables[idx], schema.inputFile)
  /\ IF idx < Len(schema.tables)
       THEN idx' = idx + 1 /\ pc' = "tables"
       ELSE idx' = 1 /\ pc' = "hooks"
  /\ UNCHANGED <<schema, opts, err, cli, hook, conv>>

\* lines 75-90: one iteration of the loop over the tables
TableHooks ==
  /\ pc = "hooks"
  /\ out' = tableHooksStep(out, schema.tables[idx], supabaseImportPath(opts))
  /\ ref' = tableHooksStep(ref, schema.tables[idx], supabaseImportPath(opts))
  /\ IF idx < Len(schema.tables)
       THEN idx' = idx + 1 /\ pc' = "hooks"
       ELSE idx' = 1 /\ pc' = "enums"
  /\ UNCHANGED <<schema, opts, err, cli, hook, conv>>

\* lines 93-96
Enums ==
  /\ pc = "enums"
  /\ out' = enumsStep(out, schema)
  /\ ref' = enumsStep(ref, schema)
  /\ pc' = "functions"
  /\ UNCHANGED <<schema, opts, idx, err, cli, hook, conv>>

\* lines 99-101
Functions ==
  /\ pc = "functions"
  /\ out' = functionsStep(out, schema)
  /\ ref' = functionsStep(ref, schema)
  /\ pc' = IF schema.hasFunctions THEN "functionHooks" ELSE "storage"
  /\ UNCHANGED <<schema, opts, idx, err, cli, hook, conv>>

\* lines 103-107
FunctionHooks ==
  /\ pc = "functionHooks"
  /\ out' = functionHooksStep(out, opts)
  /\ ref' = functionHooksStep(ref, opts)
  /\ pc' = "storage"
  /\ UNCHANGED <<schema, opts, idx, err, cli, hook, conv>>

\* lines 110-111
Storage ==
  /\ pc = "storage"
  /\ out' = generateStorageModule(out, supabaseImportPath(opts))
  /\ ref' = generateStorageModule(ref, supabaseImportPath(opts))
  /\ pc' = "index"
  /\ UNCHANGED <<schema, opts, idx, err, cli, hook, conv>>

\* lines 113-116
MainIndex ==
  /\ pc = "index"
  /\ out' = mainIndexStep(out, schema)
  /\ ref' = mainIndexStep(ref, schema)
  /\ pc' = "done"
  /\ UNCHANGED <<schema, opts, idx, err, cli, hook, conv>>

Next ==
  \/ Locate
  \/ MakeOutputDir
  \/ BaseTypes
  \/ ExtractTable
  \/ TableHooks
  \/ Enums
  \/ Functions
  \/ FunctionHooks
  \/ Storage
  \/ MainIndex

Spec == Init /\ [][Next]_vars

TypeOK ==
  /\ pc \in {"start", "rejected", "mkdir", "base", "tables", "hooks", "enums",
             "functions", "functionHooks", "storage", "index", "done"}
  /\ idx \in 1..(MaxTables + 1)

\* ------------------------------------------------------------------ claims
Done == pc = "done"

StorageFiles ==
  {<<"storage", "types.ts">>, <<"storage", "hooks.ts">>, <<"storage", "index.ts">>}

TableNamesOf(s) == {s.tables[i].name : i \in 1..Len(s.tables)}

\* C1 as stated: every run that gets past locating Database.public writes
\* the storage module and the top-level index.ts, with or without Tables
C1_StorageAndIndexUnconditional ==
  Done => (StorageFiles \cup {<<"index.ts">>}) \subseteq written(out)

\* C1 amended: every run that gets past locating Database.public writes the
\* storage module; it writes the top-level index.ts exactly when public has
\* a Tables property
C1_StorageAlwaysIndexIffTables ==
  Done => /\ StorageFiles \subseteq written(out)
          /\ (<<"index.ts">> \in written(out)) <=> schema.hasTables

C1_Witness ==
  /\ Done
  /\ ~schema.hasTables
  /\ schema.hasFunctions /\ schema.hasEnums
  /\ StorageFiles \subseteq written(out)
  /\ <<"index.ts">> \notin written(out)

\* C2 as stated: for a fixed input and fixed options, the files a run writes
\* and the content of each are the same whatever the output directory held
\* before (here: the same as in a run into a directory that did not exist)
C2_WritesIndependentOfPriorContent ==
  Done => /\ written(out) = written(ref)
          /\ \A p \in written(out) : out.files[p] = ref.files[p]

\* C3: a successful run writes types.ts, hooks.ts and index.ts for every
\* table of public.Tables, and the only top-level directories it creates
\* besides storage and functions are those of the tables
C3_TableModules ==
  Done =>
    /\ \A n \in TableNamesOf(schema) :
         {<<n, "types.ts">>, <<n, "hooks.ts">>, <<n, "index.ts">>} \subseteq written(out)
    /\ \A d \in out.made :
         Len(d) = 1 /\ d[1] \notin {"storage", "functions"} => d[1] \in TableNamesOf(schema)
    /\ \A p \in written(out) :
         Len(p) = 2 /\ p[1] \notin {"storage", "functions"} => p[1] \in TableNamesOf(schema)

C3_Witness ==
  /\ Done
  /\ Len(schema.tables) = 2
  /\ <<"posts">> \in out.made
  /\ <<"users", "hooks.ts">> \in written(out)
  /\ <<"posts", "types.ts">> \in written(out)

\* C4: when there is no Database type alias or Database has no public
\* property, run() rejects before it creates a directory or writes a file,
\* so the output directory is as it was; the missing public property is
\* reported as 'No "public" property found in Database'
C4_RejectLeavesOutputUntouched ==
  (~schema.hasDatabaseAlias \/ ~schema.hasPublic) =>
    /\ pc \in {"start", "rejected"}
    /\ out \in PriorWorlds
    /\ out.made = {} /\ out.log = <<>>
    /\ (pc = "rejected" /\ schema.hasDatabaseAlias
          => err = "No \"public\" property found in Database")

C4_Witness ==
  /\ pc = "rejected"
  /\ schema.hasDatabaseAlias /\ ~schema.hasPublic
  /\ err = "No \"public\" property found in Database"
  /\ out.dirs = {} /\ out.log = <<>>

\* C5 as stated: a successful run writes base-types.ts
C5_BaseTypesFileWritten ==
  Done => <<"base-types.ts">> \in written(out)

\* C6: over a schema with Tables the top-level index.ts re-exports
\* ./base-types, ./enums and ./storage and then has one export line per
\* table of public.Tables, in declaration order, and no other
C6_MainIndexExports ==
  Done /\ schema.hasTables =>
    /\ <<"index.ts">> \in written(out)
    /\ out.files[<<"index.ts">>].reexports = <<"./base-types", "./enums", "./storage">>
    /\ Len(out.files[<<"index.ts">>].tables) = Len(schema.tables)
    /\ \A i \in 1..Len(schema.tables) :
         out.files[<<"index.ts">>].tables[i] = schema.tables[i].name

C6_Witness ==
  /\ Done
  /\ Len(schema.tables) = 2
  /\ schema.tables[1].name = "posts"
  /\ out.files[<<"index.ts">>].tables = <<"posts", "users">>

FunctionFiles(f) ==
  {<<"functions", f, "types.ts">>, <<"functions", f, "hooks.ts">>,
   <<"functions", f, "index.ts">>}

Occurrences(seq, x) == Cardinality({i \in 1..Len(seq) : seq[i] = x})

\* C7: a function whose name starts with '_' gets no directory, no file and
\* no export line; every other function gets types.ts, hooks.ts (query hook,
\* mutation hook, direct call) and index.ts, and exactly one export line in
\* functions/index.ts
C7_FunctionModules ==
  Done /\ schema.hasFunctions =>
    \A i \in 1..Len(schema.functions) :
      LET f == schema.functions[i].name
          exports == out.files[<<"functions", "index.ts">>].exports
      IN IF Spell(f)[1] = "_"
           THEN /\ <<"functions", f>> \notin out.dirs
                /\ FunctionFiles(f) \cap written(out) = {}
                /\ Occurrences(exports, f) = 0
           ELSE /\ FunctionFiles(f) \subseteq written(out)
                /\ out.files[<<"functions", f, "hooks.ts">>].exports
                     = <<"query", "mutation", "call">>
                /\ <<"functions", "index.ts">> \in written(out)
                /\ Occurrences(exports, f) = 1

C7_Witness ==
  /\ Done
  /\ Len(schema.functions) = 2
  /\ schema.functions[1].name = "_priv"
  /\ <<"functions", "_priv">> \notin out.dirs
  /\ <<"functions", "get_x", "hooks.ts">> \in written(out)
  /\ out.files[<<"functions", "index.ts">>].exports = <<"get_x">>

ListsForeignKey(t) == t.rel.present /\ Len(t.rel.keys) > 0

\* C8 as stated: a table whose Relationships lists a foreign key gets
\* relations.ts with one type per foreign key (Row | null when isOneToOne,
\* Row[] otherwise); a table without one gets neither relations.ts nor
\* relationships.json
C8_RelationsPerForeignKey ==
  Done =>
    \A i \in 1..Len(schema.tables) :
      LET t == schema.tables[i] IN
        IF ListsForeignKey(t)
          THEN /\ <<t.name, "relations.ts">> \in written(out)
               /\ LET r == out.files[<<t.name, "relations.ts">>].relations IN
                    /\ Len(r) = Len(t.rel.keys)
                    /\ \A k \in 1..Len(r) :
                         /\ r[k].foreignKeyName = t.rel.keys[k].foreignKeyName
                         /\ r[k].type = IF t.rel.keys[k].isOneToOne
                                          THEN "Row | null" ELSE "Row[]"
          ELSE /\ <<t.name, "relations.ts">> \notin written(out)
               /\ <<t.name, "relationships.json">> \notin written(out)

SharedTypesOf(t) == Range(Flatten(t.row \o t.insert \o t.update))

\* C9 as stated: wherever the input file lies, every shared type a table's
\* Row, Insert or Update references is exported by base-types.ts, imported
\* by the table's types.ts and written there as the bare name
C9_SharedTypesResolved ==
  Done =>
    \A i \in 1..Len(schema.tables) :
      LET t == schema.tables[i]
          f == out.files[<<t.name, "types.ts">>]
          occurrences == Flatten(f.row) \o Flatten(f.insert) \o Flatten(f.update)
      IN \A n \in SharedTypesOf(t) :
           /\ <<"base-types.ts">> \in written(out)
           /\ n \in Range(out.files[<<"base-types.ts">>].exports)
           /\ n \in Range(f.imports)
           /\ \A k \in 1..Len(occurrences) :
                occurrences[k].name = n => occurrences[k].form = "bare"

RECURSIVE StringLiteralValues(_)
StringLiteralValues(types) ==
  IF types = <<>> THEN <<>>
  ELSE IF Head(types).lit
    THEN <<Head(types).val>> \o StringLiteralValues(Tail(types))
    ELSE StringLiteralValues(Tail(types))

\* C10 as stated: enums.ts is written exactly when public has an Enums
\* property, and then holds one line per enum, named pascalCase of the
\* enum's name, whose right-hand side lists the enum's string-literal
\* members in declaration order
C10_EnumsFileDeclarationOrder ==
  Done =>
    /\ (<<"enums.ts">> \in written(out)) <=> schema.hasEnums
    /\ schema.hasEnums =>
         LET lines == out.files[<<"enums.ts">>].lines IN
           /\ Len(lines) = Len(schema.enums)
           /\ \A i \in 1..Len(schema.enums) :
                /\ lines[i].name = pascalCase(Spell(schema.enums[i].name))
                /\ lines[i].rhs = StringLiteralValues(schema.enums[i].declared)

\* the string literals all enums declare, enum after enum
DeclaredLiterals(enums) ==
  StringLiteralValues(Flatten([i \in 1..Len(enums) |-> enums[i].declared]))

\* where a string literal is declared first among the enums
FirstDeclared(enums, v) ==
  LET all == DeclaredLiterals(enums)
  IN CHOOSE k \in 1..Len(all) : all[k] = v /\ \A j \in 1..(k - 1) : all[j] # v

\* no string literal of enum i is declared by an earlier enum or twice
DeclaresFirst(enums, i) ==
  LET own == StringLiteralValues(enums[i].declared) IN
    /\ \A j \in 1..(i - 1) :
         Range(StringLiteralValues(enums[j].declared)) \cap Range(own) = {}
    /\ \A a, b \in 1..Len(own) : own[a] = own[b] => a = b

\* C10 amended: enums.ts is written exactly when public has an Enums
\* property, and then holds one line per enum, named pascalCase of the
\* enum's name, whose right-hand side lists the enum's string-literal
\* members, each once, in the order of the compiler's union: ordered by
\* where each literal is first declared among the enums, which is the
\* enum's declaration order when none of its literals was declared before
C10_EnumsFile ==
  Done =>
    /\ (<<"enums.ts">> \in written(out)) <=> schema.hasEnums
    /\ schema.hasEnums =>
         LET lines == out.files[<<"enums.ts">>].lines IN
           /\ Len(lines) = Len(schema.enums)
           /\ \A i \in 1..Len(schema.enums) :
                LET rhs == lines[i].rhs
                    own == StringLiteralValues(schema.enums[i].declared)
                IN /\ lines[i].name = pascalCase(Spell(schema.enums[i].name))
                   /\ Range(rhs) = Range(own)
                   /\ \A a, b \in 1..Len(rhs) :
                        a < b => FirstDeclared(schema.enums, rhs[a])
                                   < FirstDeclared(schema.enums, rhs[b])
                   /\ DeclaresFirst(schema.enums, i) => rhs = own

C10_Witness ==
  /\ Done
  /\ Len(schema.enums) = 2
  /\ schema.enums[2].declared = <<Lit("published"), Lit("draft")>>
  /\ out.files[<<"enums.ts">>].lines[1] =
       [name |-> <<"P","o","s","t","S","t","a","t","u","s">>,
        rhs |-> <<"draft", "published">>]
  /\ out.files[<<"enums.ts">>].lines[2] =
       [name |-> <<"K","i","n","d">>, rhs |-> <<"draft", "published">>]

\* ================================================================ the CLI
\* A path is absolute or relative and a sequence of segments.
RelPath(segs) == [abs |-> FALSE, segs |-> segs]
AbsPath(segs) == [abs |-> TRUE, segs |-> segs]
NoPath == RelPath(<<>>)

\* process.cwd()
Cwd == AbsPath(<<"proj">>)

\* path.resolve(process.cwd(), p): an absolute p stands, a relative one is
\* appended to the current directory; "." segments are dropped
pathResolve(cwd, p) ==
  LET segs == SelectSeq(p.segs, LAMBDA x : x # ".") IN
    IF p.abs THEN AbsPath(segs) ELSE AbsPath(cwd.segs \o segs)

\* the defaults of the options (index.ts lines 19-23)
DefaultInput == RelPath(<<".", "lib", "database.types.ts">>)
DefaultOutput == RelPath(<<".", "lib", "database">>)
DefaultTsConfig == RelPath(<<".", "tsconfig.json">>)
DefaultSupabasePath == "@/lib/supabase"

\* values given on the command line, and values a config file defines
GivenInput == AbsPath(<<"data", "db.ts">>)
GivenSupabasePath == "./cli-client"
ConfigPath == RelPath(<<"hooks.config.json">>)
ConfigValues ==
  [input |-> RelPath(<<"cfg", "database.types.ts">>),
   output |-> RelPath(<<"cfg", "out">>),
   tsConfig |-> RelPath(<<"cfg", "tsconfig.json">>),
   supabasePath |-> "./cfg-client"]

OptionKeys == {"input", "output", "tsConfig", "supabasePath"}

\* the options object commander hands to the action
ArgvOptions ==
  [input : {DefaultInput, GivenInput}, output : {DefaultOutput},
   tsConfig : {DefaultTsConfig},
   supabasePath : {DefaultSupabasePath, GivenSupabasePath},
   hasConfig : BOOLEAN, config : {ConfigPath}]

\* what the config file holds: text JSON.parse rejects, or an object that
\* defines some of the options
ConfigFiles ==
  {[valid |-> FALSE, values |-> <<>>]}
  \cup {[valid |-> TRUE, values |-> [k \in D |-> ConfigValues[k]]] : D \in SUBSET OptionKeys}

\* the files that may exist
CliFiles ==
  {pathResolve(Cwd, p) :
     p \in {DefaultInput, GivenInput, ConfigValues.input,
            DefaultTsConfig, ConfigValues.tsConfig, ConfigPath}}

\* { ...configFile, ...options }: the command line wins
mergeOptionsArgvFirst(options, configFile) ==
  [k \in DOMAIN options \cup DOMAIN configFile |->
     IF k \in DOMAIN options THEN options[k] ELSE configFile[k]]

\* { ...options, ...configFile }
mergeOptions(options, configFile) ==
  [k \in DOMAIN options \cup DOMAIN configFile |->
     IF k \in DOMAIN configFile THEN configFile[k] ELSE options[k]]

\* process.exit(code): nothing of the action runs after it
processExit(c, code) ==
  [c EXCEPT !.pc = "exited", !.exited = TRUE, !.exitCode = code]

\* lines 28-38; a JSON.parse that throws lands in the catch of lines 69-71
loadConfig(c) ==
  IF ~c.options.hasConfig THEN [c EXCEPT !.pc = "resolve"]
  ELSE IF pathResolve(Cwd, c.options.config) \in c.files
    THEN IF c.configFile.valid
           THEN [c EXCEPT !.options = mergeOptions(c.options, c.configFile.values),
                          !.pc = "resolve"]
           ELSE processExit(c, 1)
    ELSE processExit(c, 1)

\* lines 40-43
resolvePaths(c) ==
  [c EXCEPT !.inputFile = pathResolve(Cwd, c.options.input),
            !.outputDir = pathResolve(Cwd, c.options.output),
            !.tsConfigPath = pathResolve(Cwd, c.options.tsConfig),
            !.pc = "checkInput"]

\* the input file is not looked for
checkInputSkipped(c) == [c EXCEPT !.pc = "checkTsConfig"]

\* lines 45-50
checkInput(c) ==
  IF c.inputFile \notin c.files THEN processExit(c, 1)
  ELSE [c EXCEPT !.pc = "checkTsConfig"]

\* lines 52-57
checkTsConfig(c) ==
  IF c.tsConfigPath \notin c.files THEN processExit(c, 1)
  ELSE [c EXCEPT !.pc = "run"]

\* lines 59-65: the call of run()
callRun(c) ==
  [c EXCEPT !.runCalls = Append(@,
              [inputFile |-> c.inputFile, outputDir |-> c.outputDir,
               tsConfigPath |-> c.tsConfigPath,
               supabaseImportPath |-> c.options.supabasePath]),
            !.pc = "await"]

\* the success message printed whether run() resolved or rejected
runSettledAlwaysSuccess(c, outcome) ==
  [c EXCEPT !.runResult = outcome, !.success = TRUE, !.pc = "done"]

\* lines 60-72: run() resolved, the success message is printed and the
\* action ends; run() rejected, the catch exits with code 1
runSettled(c, outcome) ==
  IF outcome = "resolved"
    THEN [c EXCEPT !.runResult = outcome, !.success = TRUE, !.pc = "done"]
    ELSE processExit([c EXCEPT !.runResult = outcome], 1)

\* the run and the other parts are at rest while the CLI is modelled
RunAtRest ==
  /\ schema = EarlierSchema
  /\ opts = [supabaseImportPath |-> None]
  /\ pc = "rest"
  /\ idx = 1
  /\ err = None
  /\ out = EmptyWorld
  /\ ref = EmptyWorld

runVars == <<schema, opts, pc, idx, err, out, ref>>

CliInit ==
  /\ RunAtRest
  /\ hook = HookAtRest
  /\ conv = ConvAtRest
  /\ \E a \in ArgvOptions, f \in ConfigFiles, e \in SUBSET CliFiles :
       cli = [pc |-> "config", argv |-> a, options |-> a, configFile |-> f,
              files |-> e, inputFile |-> NoPath, outputDir |-> NoPath,
              tsConfigPath |-> NoPath, runCalls |-> <<>>, runResult |-> "none",
              success |-> FALSE, exited |-> FALSE, exitCode |-> 0]

CliLoadConfig ==
  /\ cli.pc = "config"
  /\ cli' = loadConfig(cli)
  /\ UNCHANGED <<runVars, hook, conv>>

CliResolvePaths ==
  /\ cli.pc = "resolve"
  /\ cli' = resolvePaths(cli)
  /\ UNCHANGED <<runVars, hook, conv>>

CliCheckInput ==
  /\ cli.pc = "checkInput"
  /\ cli' = checkInput(cli)
  /\ UNCHANGED <<runVars, hook, conv>>

CliCheckTsConfig ==
  /\ cli.pc = "checkTsConfig"
  /\ cli' = checkTsConfig(cli)
  /\ UNCHANGED <<runVars, hook, conv>>

CliCallRun ==
  /\ cli.pc = "run"
  /\ cli' = callRun(cli)
  /\ UNCHANGED <<runVars, hook, conv>>

\* the promise run() returned settles
CliRunSettled ==
  /\ cli.pc = "await"
  /\ \E outcome \in {"resolved", "rejected"} : cli' = runSettled(cli, outcome)
  /\ UNCHANGED <<runVars, hook, conv>>

CliNext ==
  \/ CliLoadConfig
  \/ CliResolvePaths
  \/ CliCheckInput
  \/ CliCheckTsConfig
  \/ CliCallRun
  \/ CliRunSettled

CliSpec == CliInit /\ [][CliNext]_vars

\* the options in force: those of the config file over those of the
\* command line, when --config names a file that exists and parses
ConfigApplies(c) ==
  c.argv.hasConfig /\ pathResolve(Cwd, c.argv.config) \in c.files /\ c.configFile.valid

\* C11: run() is called only when the input file and the tsconfig file
\* exist and, with --config, the config file exists; when one of them is
\* missing the process exits with code 1 and run() is never called
C11_RunOnlyWhenFilesExist ==
  /\ cli.runCalls # <<>> =>
       /\ cli.inputFile \in cli.files
       /\ cli.tsConfigPath \in cli.files
       /\ cli.argv.hasConfig => pathResolve(Cwd, cli.argv.config) \in cli.files
  /\ cli.pc \in {"done", "exited"} /\
       (\/ cli.argv.hasConfig /\ pathResolve(Cwd, cli.argv.config) \notin cli.files
        \/ pathResolve(Cwd, cli.options.input) \notin cli.files
        \/ pathResolve(Cwd, cli.options.tsConfig) \notin cli.files)
       => cli.exited /\ cli.exitCode = 1 /\ cli.runCalls = <<>>

C11_Witness ==
  /\ cli.pc = "exited" /\ cli.exitCode = 1 /\ cli.runCalls = <<>>
  /\ cli.inputFile \in cli.files
  /\ cli.tsConfigPath # NoPath /\ cli.tsConfigPath \notin cli.files

\* C12: with --config naming an existing JSON file, run() receives for
\* each option the file's value when the file defines it and the command
\* line's (or default) value otherwise, the paths resolved against the
\* current directory
C12_ConfigFilePrecedence ==
  cli.runCalls # <<>> /\ ConfigApplies(cli) =>
    LET args == cli.runCalls[1]
        file == cli.configFile.values
        Pick(k) == IF k \in DOMAIN file THEN ConfigValues[k] ELSE cli.argv[k]
    IN /\ args.inputFile = pathResolve(Cwd, Pick("input"))
       /\ args.outputDir = pathResolve(Cwd, Pick("output"))
       /\ args.tsConfigPath = pathResolve(Cwd, Pick("tsConfig"))
       /\ args.supabaseImportPath = Pick("supabasePath")
       /\ args.inputFile.abs /\ args.outputDir.abs /\ args.tsConfigPath.abs

C12_Witness ==
  /\ cli.runCalls # <<>> /\ ConfigApplies(cli)
  /\ DOMAIN cli.configFile.values = {"input", "supabasePath"}
  /\ cli.argv.input = GivenInput
  /\ cli.runCalls[1].inputFile = AbsPath(<<"proj", "cfg", "database.types.ts">>)
  /\ cli.runCalls[1].tsConfigPath = AbsPath(<<"proj", "tsconfig.json">>)
  /\ cli.runCalls[1].supabaseImportPath = "./cfg-client"

\* C13: when run() rejects the CLI exits with code 1 and does not print the
\* success message; the success message is printed only once run() resolved
C13_SuccessOnlyAfterResolve ==
  /\ cli.runResult = "rejected" => cli.exited /\ cli.exitCode = 1 /\ ~cli.success
  /\ cli.success => cli.runResult = "resolved" /\ Len(cli.runCalls) = 1

C13_Witness ==
  /\ cli.runResult = "rejected" /\ cli.exited /\ cli.exitCode = 1 /\ ~cli.success

\* ---------------------------------------------------------------- C14
IsHooksFile(p) == Len(p) > 0 /\ p[Len(p)] = "hooks.ts"

\* C14: every hooks.ts a run writes (of a table, of a function, of the
\* storage module) imports the supabase client from the supabaseImportPath
\* option when it is given and from '@/lib/supabase' when it is omitted
C14_HooksImportPath ==
  \A p \in written(out) : IsHooksFile(p) =>
    out.files[p].supabase =
      (IF opts.supabaseImportPath = None THEN "@/lib/supabase"
                                         ELSE opts.supabaseImportPath)

C14_Witness ==
  /\ Done
  /\ opts.supabaseImportPath = "./client"
  /\ \E t \in TableNamesOf(schema) :
       /\ <<t, "hooks.ts">> \in written(out)
       /\ out.files[<<t, "hooks.ts">>].supabase = "./client"
  /\ <<"functions", "get_x", "hooks.ts">> \in written(out)
  /\ out.files[<<"functions", "get_x", "hooks.ts">>].supabase = "./client"
  /\ <<"storage", "hooks.ts">> \in written(out)
  /\ out.files[<<"storage", "hooks.ts">>].supabase = "./client"

\* ================================================= pascalCase, camelCase
\* the longest name drawn, in characters
MaxNameLen == 6

NameChars == {"a", "Z", "7"}
Separators == {"_", "-"}

\* alphanumeric words separated by one '_' or '-'
IsWordsName(s) ==
  /\ Len(s) > 0
  /\ s[1] \in NameChars
  /\ s[Len(s)] \in NameChars
  /\ \A i \in 1..(Len(s) - 1) : ~(s[i] \in Separators /\ s[i + 1] \in Separators)

\* the names the two functions are called with
ConvNames ==
  {s \in UNION {[1..n -> NameChars \cup Separators] : n \in 1..MaxNameLen} :
     IsWordsName(s)}
  \cup {<<"a","p","i","_","u","s","a","g","e","_","l","o","g","s">>}

ConvInit ==
  /\ RunAtRest
  /\ cli = CliAtRest
  /\ hook = HookAtRest
  /\ \E s \in ConvNames :
       conv = [pc |-> "name", name |-> s, hasPascal |-> FALSE, pascal |-> <<>>,
               hasCamel |-> FALSE, camel |-> <<>>]

ConvPascalCase ==
  /\ conv.pc = "name"
  /\ ~conv.hasPascal
  /\ conv' = [conv EXCEPT !.hasPascal = TRUE, !.pascal = pascalCase(conv.name)]
  /\ UNCHANGED <<runVars, cli, hook>>

ConvCamelCase ==
  /\ conv.pc = "name"
  /\ ~conv.hasCamel
  /\ conv' = [conv EXCEPT !.hasCamel = TRUE, !.camel = camelCase(conv.name)]
  /\ UNCHANGED <<runVars, cli, hook>>

ConvNext ==
  \/ ConvPascalCase
  \/ ConvCamelCase

ConvSpec == ConvInit /\ [][ConvNext]_vars

\* the words of a name: the maximal runs of characters between separators
RECURSIVE WordsOf(_, _)
WordsOf(s, word) ==
  IF s = <<>> THEN <<word>>
  ELSE IF Head(s) \in Separators THEN <<word>> \o WordsOf(Tail(s), <<>>)
  ELSE WordsOf(Tail(s), Append(word, Head(s)))

UpperFirst(word) ==
  IF word = <<>> THEN <<>> ELSE <<toUpperCase(word[1])>> \o Tail(word)

LowerFirst(word) ==
  IF word = <<>> THEN <<>> ELSE <<toLowerCase(word[1])>> \o Tail(word)

WordsUpperFirst(s) ==
  LET ws == WordsOf(s, <<>>) IN Flatten([i \in 1..Len(ws) |-> UpperFirst(ws[i])])

\* C15: for a name made of alphanumeric words separated by '_' or '-',
\* pascalCase returns the words concatenated, the first letter of each
\* upper-cased and no separator left, and camelCase returns that string
\* with only its first letter lower-cased
C15_CaseConversion ==
  /\ conv.pc = "name" /\ conv.hasPascal =>
       /\ conv.pascal = WordsUpperFirst(conv.name)
       /\ \A i \in 1..Len(conv.pascal) : conv.pascal[i] \notin Separators
  /\ conv.pc = "name" /\ conv.hasCamel =>
       conv.camel = LowerFirst(WordsUpperFirst(conv.name))
  /\ conv.pc = "name" /\ conv.hasPascal
       /\ conv.name = <<"a","p","i","_","u","s","a","g","e","_","l","o","g","s">>
       => conv.pascal = <<"A","p","i","U","s","a","g","e","L","o","g","s">>

C15_Witness ==
  /\ conv.pc = "name"
  /\ conv.name = <<"Z", "a", "-", "a", "_", "7">>
  /\ conv.hasPascal /\ conv.pascal = <<"Z", "a", "A", "7">>
  /\ conv.hasCamel /\ conv.camel = <<"z", "a", "A", "7">>

\* ==================================================== the generated hooks
\* The hooks.ts that generateTableHooks writes for a table, in use by an
\* application: hook calls, the requests they send to supabase and the keys
\* of the query cache. A JavaScript value is a record of its type and content.
Undefined == [type |-> "undefined", str |-> "", num |-> 0, items |-> <<>>]
Null == [type |-> "null", str |-> "", num |-> 0, items |-> <<>>]
Str(s) == [type |-> "string", str |-> s, num |-> 0, items |-> <<>>]
Num(n) == [type |-> "number", str |-> "", num |-> n, items |-> <<>>]
Bool(b) == [type |-> "boolean", str |-> "", num |-> IF b THEN 1 ELSE 0, items |-> <<>>]
Arr(items) == [type |-> "array", str |-> "", num |-> 0, items |-> items]

\* !!v
Truthy(v) ==
  CASE v.type \in {"undefined", "null"} -> FALSE
    [] v.type = "string" -> v.str # ""
    [] v.type \in {"number", "boolean"} -> v.num # 0
    [] OTHER -> TRUE

\* a || b
OrElse(a, b) == IF Truthy(a) THEN a ELSE b

DigitText == <<"0", "1", "2", "3", "4", "5", "6", "7", "8", "9">>

\* Number.prototype.toString of a natural number
RECURSIVE NumText(_)
NumText(n) ==
  IF n < 10 THEN <<DigitText[n + 1]>> ELSE NumText(n \div 10) \o <<DigitText[(n % 10) + 1]>>

\* the texts of the numbers and strings used as primary key values
TextOf(chars) ==
  CASE chars = <<"0">> -> "0"
    [] chars = <<"1">> -> "1"
    [] chars = <<"2">> -> "2"
    [] chars = <<"3">> -> "3"

\* value?.toString(): undefined stays undefined
toStringOpt(v) ==
  CASE v.type = "undefined" -> Undefined
    [] v.type = "number" -> Str(TextOf(NumText(v.num)))
    [] OTHER -> v

\* the table the hooks are generated for
HookTable == "users"

\* the query keys (lines 37-48)
KeysAll == <<Str(HookTable)>>
KeysLists == KeysAll \o <<Str("list")>>
KeysDetails == KeysAll \o <<Str("detail")>>
KeysDetail(id, select) == KeysDetails \o <<id, select>>
KeysPrimaryKey(primaryKeyColumn, value, select) ==
  KeysDetails \o <<primaryKeyColumn, value, select>>

\* a request sent to supabase: from(table).select(select).eq(column, value).single()
NoRequest ==
  [issued |-> FALSE, table |-> "", select |-> Undefined, column |-> Undefined,
   value |-> Undefined, single |-> FALSE]

SingleRequest(select, column, value) ==
  [issued |-> TRUE, table |-> HookTable, select |-> select, column |-> column,
   value |-> value, single |-> TRUE]

\* useQuery({ queryKey, enabled, queryFn }): the query is in the cache under
\* its key, and its queryFn runs when it is enabled
useQuery(key, enabled, request) ==
  [key |-> key, enabled |-> enabled,
   request |-> IF enabled THEN request ELSE NoRequest]

\* useGet<T>ById(id, options) (lines 226-259)
useGetById(id, optionsSelect) ==
  LET select == OrElse(optionsSelect, Str("*")) IN
    useQuery(KeysDetail(OrElse(id, Str("")), select), Truthy(id),
             SingleRequest(select, Str("id"), id))

\* useGet<T>ByPrimaryKey(primaryKeyColumn, value, options) (lines 262-296)
useGetByPrimaryKey(primaryKeyColumn, value, optionsSelect) ==
  LET select == OrElse(optionsSelect, Str("*")) IN
    useQuery(KeysPrimaryKey(primaryKeyColumn, OrElse(toStringOpt(value), Str("")), select),
             Truthy(value), SingleRequest(select, primaryKeyColumn, value))

\* the most hook calls and lazy fetches an application makes
MaxCalls == 2

\* partialMatchKey(a, b) of the query client, on keys that are arrays of
\* primitive values: every index of b holds the same value in a; an index
\* beyond the end of a reads undefined
partialMatchKey(a, b) ==
  \A i \in 1..Len(b) : (IF i <= Len(a) THEN a[i] ELSE Undefined) = b[i]

\* queryClient.invalidateQueries({ queryKey }): the cached keys it matches
invalidateQueries(cache, queryKey) == {k \in cache : partialMatchKey(k, queryKey)}

\* onSuccess of useUpdate<T> (lines 406-410) and of useDelete<T> (466-470)
onSuccessById(cache, id) ==
  invalidateQueries(cache, KeysDetail(id, Undefined))
  \cup invalidateQueries(cache, KeysLists)

\* onSuccess of useUpdate<T>ByPrimaryKey (lines 436-442) and of
\* useDelete<T>ByPrimaryKey (494-500)
onSuccessByPrimaryKey(cache, primaryKeyColumn, value) ==
  invalidateQueries(cache, KeysPrimaryKey(primaryKeyColumn, toStringOpt(value), Undefined))
  \cup invalidateQueries(cache, KeysLists)

\* the arguments the application passes
HookIds == {Undefined, Str(""), Str("1"), Str("2")}
HookSelects == {Undefined, Str("id, name")}
HookColumns == {Str("code")}
HookValues == {Undefined, Str(""), Str("1"), Num(0), Num(1)}
MutatedIds == {Str("1"), Str("2")}
MutatedValues == {Str("1"), Num(0), Num(1)}

\* C16 as stated: useGet<T>ByPrimaryKey(column, value) sends
\* eq(column, value).single() for every defined string or number value and
\* sends nothing while value is undefined; useGet<T>ById(id) sends a request
\* exactly when id is a defined string
C16_RequestIffDefined ==
  \A c \in hook.calls :
    /\ c.hook = "useGetByPrimaryKey" /\ c.value.type \in {"string", "number"} =>
         /\ c.query.request.issued
         /\ c.query.request.column = c.column
         /\ c.query.request.value = c.value
         /\ c.query.request.single
    /\ c.hook = "useGetByPrimaryKey" /\ c.value = Undefined => ~c.query.request.issued
    /\ c.hook = "useGetById" => (c.query.request.issued <=> c.value.type = "string")

\* C20 as stated: after useUpdate<T> or useDelete<T> succeeded for an id,
\* the invalidation matches every cached useGet<T>ById query of that id
\* whatever its select, and after the ByPrimaryKey mutations every cached
\* useGet<T>ByPrimaryKey query of that column and value
C20_InvalidationMatchesDetailQueries ==
  hook.pc = "mutated" /\ hook.mutation.success =>
    \A c \in hook.calls :
      /\ hook.mutation.hook \in {"useUpdate", "useDelete"}
           /\ c.hook = "useGetById" /\ c.value = hook.mutation.value
           => c.query.key \in hook.matched
      /\ hook.mutation.hook \in {"useUpdateByPrimaryKey", "useDeleteByPrimaryKey"}
           /\ c.hook = "useGetByPrimaryKey" /\ c.column = hook.mutation.column
           /\ c.value = hook.mutation.value
           => c.query.key \in hook.matched

\* ---------------------------------------------------------------- C17
\* the positions of path p among the writes of the run, in order
Positions(w, p) == {i \in 1..Len(w.log) : w.log[i] = p}

Before(w, p, q) == \A i \in Positions(w, p), j \in Positions(w, q) : i < j

\* a table's files in the order the run writes them: types.ts before the
\* step that extracts its relationships, relations.ts before hooks.ts, and
\* hooks.ts before the last write of the module's index.ts
TableOrder(w, n) ==
  /\ Before(w, <<n, "types.ts">>, <<n, "relationships.json">>)
  /\ Before(w, <<n, "types.ts">>, <<n, "relations.ts">>)
  /\ Before(w, <<n, "types.ts">>, <<n, "hooks.ts">>)
  /\ Before(w, <<n, "relations.ts">>, <<n, "hooks.ts">>)
  /\ \A h \in Positions(w, <<n, "hooks.ts">>) :
       /\ \E i \in Positions(w, <<n, "index.ts">>) : h < i
       /\ \A r \in Positions(w, <<n, "relations.ts">>) :
            \E i \in Positions(w, <<n, "index.ts">>) : r < i

RunOrder ==
  /\ \A k \in 1..Len(schema.tables) :
       /\ TableOrder(out, schema.tables[k].name)
       /\ pc = "hooks" /\ idx = k =>
            <<schema.tables[k].name, "types.ts">> \in written(out)
  /\ \A i \in Positions(out, <<"index.ts">>) : i = Len(out.log) /\ Done
  /\ ~Done => <<"index.ts">> \notin written(out)

\* C17 as stated: the order of a table's files holds, and the top-level
\* index.ts is the last file every finished run writes
C17_WriteOrderIndexLast ==
  /\ RunOrder
  /\ Done /\ err = None =>
       Len(out.log) > 0 /\ out.log[Len(out.log)] = <<"index.ts">>

\* C17 amended: for every table, types.ts is written before its
\* relationships are extracted and relations.ts before hooks.ts and the last
\* index.ts of the module; the top-level index.ts, which the run writes when
\* public has Tables, is then the last file written, and no run that stops
\* before the end has written it
C17_WriteOrder ==
  /\ RunOrder
  /\ Done /\ err = None /\ schema.hasTables =>
       Len(out.log) > 0 /\ out.log[Len(out.log)] = <<"index.ts">>

C17_Witness ==
  /\ Done
  /\ \E i \in 1..Len(schema.tables) :
       schema.tables[i].name = "users" /\ ListsForeignKey(schema.tables[i])
  /\ \E t \in Positions(out, <<"users", "types.ts">>),
        h \in Positions(out, <<"users", "hooks.ts">>),
        i \in Positions(out, <<"users", "index.ts">>) : t < h /\ h < i
  /\ Cardinality(Positions(out, <<"users", "index.ts">>)) = 2
  /\ out.log[Len(out.log)] = <<"index.ts">>

\* ========================================================= the list query
\* The query that useGet<T> and useLazyGet<T>().fetch build from filters. A
\* filters object is its keys in the order Object.keys returns them, the
\* value of each column key, limit, offset and order.

\* the largest limit and offset drawn
MaxRows == 2

\* filters.offset + 9: the span of a range without limit
DefaultRangeSpan == 9

specialParams == {"limit", "offset", "order"}

NoOrder == [type |-> "undefined", column |-> Undefined, direction |-> Undefined]
OrderBy(column, direction) ==
  [type |-> "object", column |-> column, direction |-> direction]

\* a key that is not a property of the object reads undefined
Absent == [present |-> FALSE, v |-> Undefined]
Present(v) == [present |-> TRUE, v |-> v]

StatusValues ==
  {Undefined, Null, Arr(<<>>), Arr(<<"a", "b">>), Str("a"), Str(""), Num(0),
   Bool(FALSE)}
RoleValues == {Str("x")}
RowCounts == {Num(n) : n \in 0..MaxRows}
Orders ==
  {OrderBy(Str("c"), Undefined), OrderBy(Str("c"), Str("asc")),
   OrderBy(Str("c"), Str("desc")), OrderBy(Str(""), Str("desc"))}

MakeFilters(status, role, limit, offset, hasOrder, order) ==
  [keys |-> (IF status.present THEN <<"status">> ELSE <<>>)
            \o (IF limit.present THEN <<"limit">> ELSE <<>>)
            \o (IF role.present THEN <<"role">> ELSE <<>>)
            \o (IF offset.present THEN <<"offset">> ELSE <<>>)
            \o (IF hasOrder THEN <<"order">> ELSE <<>>),
   status |-> status.v, role |-> role.v, limit |-> limit.v, offset |-> offset.v,
   order |-> IF hasOrder THEN order ELSE NoOrder]

FilterParams ==
  {MakeFilters(status, role, limit, offset, TRUE, order) :
     status \in {Absent} \cup {Present(v) : v \in StatusValues},
     role \in {Absent} \cup {Present(v) : v \in RoleValues},
     limit \in {Absent} \cup {Present(v) : v \in RowCounts},
     offset \in {Absent} \cup {Present(v) : v \in RowCounts},
     order \in Orders}
  \cup
  {MakeFilters(status, role, limit, offset, FALSE, NoOrder) :
     status \in {Absent} \cup {Present(v) : v \in StatusValues},
     role \in {Absent} \cup {Present(v) : v \in RoleValues},
     limit \in {Absent} \cup {Present(v) : v \in RowCounts},
     offset \in {Absent} \cup {Present(v) : v \in RowCounts}}

\* a falsy value skipped like undefined
filterConditionTruthy(key, value) ==
  IF ~Truthy(value) THEN <<>>
  ELSE IF value.type = "array" THEN <<[op |-> "in", column |-> key, value |-> value]>>
  ELSE <<[op |-> "eq", column |-> key, value |-> value]>>

\* lines 79-104: the condition one key adds to the query
filterCondition(key, value) ==
  IF key \in specialParams THEN <<>>
  ELSE IF value.type = "undefined" THEN <<>>
  ELSE IF value.type = "null" THEN <<[op |-> "is", column |-> key, value |-> Null]>>
  ELSE IF value.type = "array"
    THEN IF Len(value.items) > 0
           THEN <<[op |-> "in", column |-> key, value |-> value]>>
           ELSE <<>>
  ELSE <<[op |-> "eq", column |-> key, value |-> value]>>

\* filters[key] for the keys that are read as columns
FilterValue(filters, key) ==
  IF key \in specialParams THEN Undefined ELSE filters[key]

\* lines 78-105: Object.keys(filters).forEach
RECURSIVE applyFilters(_, _)
applyFilters(filters, keys) ==
  IF keys = <<>> THEN <<>>
  ELSE filterCondition(Head(keys), FilterValue(filters, Head(keys)))
       \o applyFilters(filters, Tail(keys))

\* the end one past the last row: offset + limit
rangeEndExclusive(offset, limit) ==
  IF limit.type # "undefined" THEN offset.num + limit.num
  ELSE offset.num + DefaultRangeSpan

\* lines 114-117: the second argument of query.range
rangeEnd(offset, limit) ==
  IF limit.type # "undefined" THEN offset.num + limit.num - 1
  ELSE offset.num + DefaultRangeSpan

NoRange == [called |-> FALSE, from |-> 0, to |-> 0]
NotOrdered == [called |-> FALSE, column |-> Undefined, ascending |-> FALSE]

\* lines 70-127, and the same statements at lines 149-206
listQuery(filters, select) ==
  [table |-> HookTable,
   select |-> select,
   conds |-> applyFilters(filters, filters.keys),
   limit |-> filters.limit,
   range |-> IF filters.offset.type # "undefined"
               THEN [called |-> TRUE, from |-> filters.offset.num,
                     to |-> rangeEnd(filters.offset, filters.limit)]
               ELSE NoRange,
   order |-> IF filters.order.type = "object" /\ Truthy(filters.order.column)
               THEN [called |-> TRUE, column |-> filters.order.column,
                     ascending |-> filters.order.direction # Str("desc")]
               ELSE NotOrdered]

\* useGet<T>(filters, { select }): the query its queryFn sends
useGetQuery(filters, optionsSelect) ==
  listQuery(filters, OrElse(optionsSelect, Str("*")))

\* useLazyGet<T>().fetch(filters, select): select defaults to '*'
fetchDataQuery(filters, select) ==
  listQuery(filters, IF select.type = "undefined" THEN Str("*") ELSE select)

\* ------------------------------------------- the hooks against the cache
\* Keys.list (lines 41-42)
KeysList(filters, select) == KeysLists \o <<filters, select>>

\* useGet<T>(filters, options) (lines 51-139): always enabled
useGet(filters, optionsSelect) ==
  useQuery(KeysList(filters, OrElse(optionsSelect, Str("*"))), TRUE,
           useGetQuery(filters, optionsSelect))

\* the filters of the list queries an application keeps in the cache
HookFilters ==
  {MakeFilters(Absent, Absent, Absent, Absent, FALSE, NoOrder),
   MakeFilters(Present(Str("a")), Absent, Absent, Absent, FALSE, NoOrder)}

\* the options a caller passes to a mutation hook: none, or an object with
\* or without an onSuccess callback of its own
NoOptions == [given |-> FALSE, onSuccess |-> FALSE]
MutationOptions ==
  {NoOptions, [given |-> TRUE, onSuccess |-> FALSE], [given |-> TRUE, onSuccess |-> TRUE]}

NoMutation ==
  [hook |-> "none", column |-> Undefined, value |-> Undefined, success |-> FALSE,
   dataId |-> Undefined, options |-> NoOptions]

\* useMutation({ mutationFn, onSuccess, ...options }): an onSuccess among
\* the options replaces the one the hook wrote, and the keys the hook's
\* callback would have invalidated are left alone
useMutation(matched, options) ==
  IF options.given /\ options.onSuccess THEN {} ELSE matched

\* onSuccess of useCreate<T> (lines 377-380)
onSuccessCreate(cache) == invalidateQueries(cache, KeysAll)

\* the onSuccess the hook of mutation m wrote, run on the cache as it is
\* when the mutation succeeds: useUpdate<T> takes the id from the row
\* supabase answered (data.id, line 408), useDelete<T> the id passed to
\* mutate, which its mutationFn returns (lines 464-468)
onSuccessOf(cache, m) ==
  CASE m.hook = "useCreate" -> onSuccessCreate(cache)
    [] m.hook = "useUpdate" -> onSuccessById(cache, m.dataId)
    [] m.hook = "useDelete" -> onSuccessById(cache, m.value)
    [] m.hook \in {"useUpdateByPrimaryKey", "useDeleteByPrimaryKey"} ->
         onSuccessByPrimaryKey(cache, m.column, m.value)
    [] OTHER -> {}

\* the ids and values handed to the fetch functions of the lazy hooks
FetchedIds == {Str("1"), Str("2")}
FetchedValues == {Str("1"), Num(1)}

\* fetchData of useLazyGet<T>ById (lines 302-322): the request it sends and
\* the key it stores the row under; select defaults to '*' when undefined
fetchById(id, select) ==
  LET sel == IF select.type = "undefined" THEN Str("*") ELSE select IN
    [hook |-> "useLazyGetById", key |-> KeysDetail(id, sel),
     request |-> SingleRequest(sel, Str("id"), id), answered |-> FALSE,
     outcome |-> "none"]

\* fetchData of useLazyGet<T>ByPrimaryKey (lines 331-352)
fetchByPrimaryKey(primaryKeyColumn, value, select) ==
  LET sel == IF select.type = "undefined" THEN Str("*") ELSE select IN
    [hook |-> "useLazyGetByPrimaryKey",
     key |-> KeysPrimaryKey(primaryKeyColumn, toStringOpt(value), sel),
     request |-> SingleRequest(sel, primaryKeyColumn, value), answered |-> FALSE,
     outcome |-> "none"]

\* what supabase answers to a request
Outcomes == {"data", "error"}

\* the id column of the row supabase answers to an insert or an update:
\* absent from the row, the id the update was sent for, or another id (the
\* update changed the id column)
AnsweredIds == {Undefined, Str("1"), Str("2")}

\* the mutation hooks whose mutationFn returns the answered row
ReturnsRow == {"useCreate", "useUpdate", "useUpdateByPrimaryKey"}

HookInit ==
  /\ RunAtRest
  /\ cli = CliAtRest
  /\ conv = ConvAtRest
  /\ hook = [pc |-> "app", calls |-> {}, fetches |-> {}, cache |-> {},
             mutation |-> NoMutation, matched |-> {}]

\* hooks are called while no mutation has settled, one in flight or not
AppRuns(h) == h.pc \in {"app", "mutating"}

\* the hook calls and fetches made so far
Uses(h) == Cardinality(h.calls) + Cardinality(h.fetches)

\* a component that calls a query hook is rendered
Rendered(h, name, column, value, select, query) ==
  [h EXCEPT !.calls = @ \cup {[hook |-> name, column |-> column, value |-> value,
                               select |-> select, query |-> query]},
            !.cache = @ \cup {query.key}]

\* mutate(variables): mutationFn sends its request and awaits the answer
Mutating(h, name, column, value, options) ==
  [h EXCEPT !.pc = "mutating",
            !.mutation = [hook |-> name, column |-> column, value |-> value,
                          success |-> FALSE, dataId |-> Undefined,
                          options |-> options]]

\* the mutation settles: the onSuccess in force runs when it succeeded, on
\* what mutationFn returned; dataId is the id column of the answered row
Settled(h, success, dataId) ==
  LET m == [h.mutation EXCEPT !.success = success, !.dataId = dataId] IN
    [h EXCEPT !.pc = "mutated",
              !.mutation = m,
              !.matched = IF success
                            THEN useMutation(onSuccessOf(h.cache, m), m.options)
                            ELSE {}]

\* the answer to a fetch arrives: an error throws, a row is stored under the
\* key with setQueryData
Answered(h, f, outcome) ==
  [h EXCEPT !.fetches = (@ \ {f}) \cup {[f EXCEPT !.answered = TRUE, !.outcome = outcome]},
            !.cache = IF outcome = "data" THEN @ \cup {f.key} ELSE @]

HookUseGet ==
  /\ AppRuns(hook)
  /\ Uses(hook) < MaxCalls
  /\ \E filters \in HookFilters, select \in HookSelects :
       hook' = Rendered(hook, "useGet", Undefined, Undefined, select,
                        useGet(filters, select))
  /\ UNCHANGED <<runVars, cli, conv>>

HookUseGetById ==
  /\ AppRuns(hook)
  /\ Uses(hook) < MaxCalls
  /\ \E id \in HookIds, select \in HookSelects :
       hook' = Rendered(hook, "useGetById", Str("id"), id, select,
                        useGetById(id, select))
  /\ UNCHANGED <<runVars, cli, conv>>

HookUseGetByPrimaryKey ==
  /\ AppRuns(hook)
  /\ Uses(hook) < MaxCalls
  /\ \E column \in HookColumns, value \in HookValues, select \in HookSelects :
       hook' = Rendered(hook, "useGetByPrimaryKey", column, value, select,
                        useGetByPrimaryKey(column, value, select))
  /\ UNCHANGED <<runVars, cli, conv>>

\* useLazyGet<T>ById().fetch(id, select) is called: the request is sent
HookLazyFetchById ==
  /\ AppRuns(hook)
  /\ Uses(hook) < MaxCalls
  /\ \E id \in FetchedIds, select \in HookSelects :
       hook' = [hook EXCEPT !.fetches = @ \cup {fetchById(id, select)}]
  /\ UNCHANGED <<runVars, cli, conv>>

\* useLazyGet<T>ByPrimaryKey().fetch(column, value, select) is called
HookLazyFetchByPrimaryKey ==
  /\ AppRuns(hook)
  /\ Uses(hook) < MaxCalls
  /\ \E column \in HookColumns, value \in FetchedValues, select \in HookSelects :
       hook' = [hook EXCEPT !.fetches = @ \cup {fetchByPrimaryKey(column, value, select)}]
  /\ UNCHANGED <<runVars, cli, conv>>

\* lines 306-319 and 336-349: the awaited answer of a fetch arrives
HookFetchAnswered ==
  /\ AppRuns(hook)
  /\ \E f \in hook.fetches, outcome \in Outcomes :
       /\ ~f.answered
       /\ hook' = Answered(hook, f, outcome)
  /\ UNCHANGED <<runVars, cli, conv>>

HookCreate ==
  /\ hook.pc = "app"
  /\ \E options \in MutationOptions :
       hook' = Mutating(hook, "useCreate", Undefined, Undefined, options)
  /\ UNCHANGED <<runVars, cli, conv>>

HookUpdate ==
  /\ hook.pc = "app"
  /\ \E id \in MutatedIds, options \in MutationOptions :
       hook' = Mutating(hook, "useUpdate", Str("id"), id, options)
  /\ UNCHANGED <<runVars, cli, conv>>

HookDelete ==
  /\ hook.pc = "app"
  /\ \E id \in MutatedIds, options \in MutationOptions :
       hook' = Mutating(hook, "useDelete", Str("id"), id, options)
  /\ UNCHANGED <<runVars, cli, conv>>

HookUpdateByPrimaryKey ==
  /\ hook.pc = "app"
  /\ \E column \in HookColumns, value \in MutatedValues, options \in MutationOptions :
       hook' = Mutating(hook, "useUpdateByPrimaryKey", column, value, options)
  /\ UNCHANGED <<runVars, cli, conv>>

HookDeleteByPrimaryKey ==
  /\ hook.pc = "app"
  /\ \E column \in HookColumns, value \in MutatedValues, options \in MutationOptions :
       hook' = Mutating(hook, "useDeleteByPrimaryKey", column, value, options)
  /\ UNCHANGED <<runVars, cli, conv>>

\* the awaited answer of the mutation arrives
HookMutationSettled ==
  /\ hook.pc = "mutating"
  /\ \E success \in BOOLEAN, dataId \in AnsweredIds :
       /\ ~(success /\ hook.mutation.hook \in ReturnsRow) => dataId = Undefined
       /\ hook' = Settled(hook, success, dataId)
  /\ UNCHANGED <<runVars, cli, conv>>

HookNext ==
  \/ HookUseGet
  \/ HookUseGetById
  \/ HookUseGetByPrimaryKey
  \/ HookLazyFetchById
  \/ HookLazyFetchByPrimaryKey
  \/ HookFetchAnswered
  \/ HookCreate
  \/ HookUpdate
  \/ HookDelete
  \/ HookUpdateByPrimaryKey
  \/ HookDeleteByPrimaryKey
  \/ HookMutationSettled

HookSpec == HookInit /\ [][HookNext]_vars

\* the select strings a caller passes to the list hooks
QuerySelects == HookSelects \cup {Str("")}

NotSent ==
  [sent |-> FALSE,
   query |-> listQuery(MakeFilters(Absent, Absent, Absent, Absent, FALSE, NoOrder), Undefined),
   key |-> <<>>, outcome |-> "none", threw |-> FALSE, stored |-> FALSE]

\* queryClient.setQueryData(key, data): the entry under key is replaced
setQueryData(cache, key, data) ==
  {e \in cache : e.key # key} \cup {[key |-> key, data |-> data]}

\* the key useGet<T> queries under (lines 65-68)
useGetKey(filters, optionsSelect) == KeysList(filters, OrElse(optionsSelect, Str("*")))

\* the key fetchData stores under (lines 147 and 217)
fetchDataKey(filters, select) ==
  KeysList(filters, IF select.type = "undefined" THEN Str("*") ELSE select)

QueryInit ==
  /\ RunAtRest
  /\ cli = CliAtRest
  /\ conv = ConvAtRest
  /\ \E filters \in FilterParams, select \in QuerySelects :
       hook = [pc |-> "query", filters |-> filters, select |-> select,
               cache |-> {}, get |-> NotSent, lazy |-> NotSent]

\* useGet<T>(filters, { select }): the queryFn builds the query, sends it
\* and awaits the answer (line 129)
QueryUseGet ==
  /\ hook.pc = "query"
  /\ ~hook.get.sent
  /\ hook' = [hook EXCEPT
       !.get = [sent |-> TRUE,
                query |-> useGetQuery(hook.filters, hook.select),
                key |-> useGetKey(hook.filters, hook.select),
                outcome |-> "none", threw |-> FALSE, stored |-> FALSE]]
  /\ UNCHANGED <<runVars, cli, conv>>

\* lines 129-135: the answer arrives; rows are cached under the query key,
\* an error makes the queryFn throw
QueryUseGetAnswered ==
  /\ hook.pc = "query"
  /\ hook.get.sent /\ hook.get.outcome = "none"
  /\ \E outcome \in Outcomes :
       hook' = [hook EXCEPT
         !.get.outcome = outcome,
         !.get.threw = (outcome = "error"),
         !.get.stored = (outcome = "data"),
         !.cache = IF outcome = "data" THEN setQueryData(@, hook.get.key, "rows") ELSE @]
  /\ UNCHANGED <<runVars, cli, conv>>

\* useLazyGet<T>().fetch(filters, select) (lines 145-208): the query is
\* built, sent and awaited
QueryLazyFetch ==
  /\ hook.pc = "query"
  /\ ~hook.lazy.sent
  /\ hook' = [hook EXCEPT
       !.lazy = [sent |-> TRUE,
                 query |-> fetchDataQuery(hook.filters, hook.select),
                 key |-> fetchDataKey(hook.filters, hook.select),
                 outcome |-> "none", threw |-> FALSE, stored |-> FALSE]]
  /\ UNCHANGED <<runVars, cli, conv>>

\* lines 208-219: the answer arrives; an error throws before setQueryData
\* is reached
QueryLazyFetchAnswered ==
  /\ hook.pc = "query"
  /\ hook.lazy.sent /\ hook.lazy.outcome = "none"
  /\ \E outcome \in Outcomes :
       hook' = [hook EXCEPT
         !.lazy.outcome = outcome,
         !.lazy.threw = (outcome = "error"),
         !.lazy.stored = (outcome = "data"),
         !.cache = IF outcome = "data" THEN setQueryData(@, hook.lazy.key, "rows") ELSE @]
  /\ UNCHANGED <<runVars, cli, conv>>

QueryNext ==
  \/ QueryUseGet
  \/ QueryUseGetAnswered
  \/ QueryLazyFetch
  \/ QueryLazyFetchAnswered

QuerySpec == QueryInit /\ [][QueryNext]_vars

\* the queries sent so far
SentQueries ==
  (IF hook.get.sent THEN {hook.get.query} ELSE {})
  \cup (IF hook.lazy.sent THEN {hook.lazy.query} ELSE {})

\* the condition the claim gives for a value
Contribution(key, v) ==
  CASE v.type = "undefined" -> <<>>
    [] v.type = "null" -> <<[op |-> "is", column |-> key, value |-> Null]>>
    [] v.type = "array" /\ v.items = <<>> -> <<>>
    [] v.type = "array" /\ v.items # <<>> -> <<[op |-> "in", column |-> key, value |-> v]>>
    [] OTHER -> <<[op |-> "eq", column |-> key, value |-> v]>>

\* C18: every key of filters other than limit, offset and order adds the
\* condition its value calls for (undefined none, null IS NULL, empty array
\* none, non-empty array IN, any other value equality), limit, offset and
\* order add no column condition, and the order is ascending unless
\* direction is 'desc'
C18_FilterConditions ==
  hook.pc = "query" =>
    \A q \in SentQueries :
      LET columns == SelectSeq(hook.filters.keys, LAMBDA k : k \notin specialParams)
      IN /\ q.conds = Flatten([i \in 1..Len(columns) |->
                                 Contribution(columns[i], hook.filters[columns[i]])])
         /\ \A i \in 1..Len(q.conds) : q.conds[i].column \notin specialParams
         /\ q.order.called => (q.order.ascending <=> hook.filters.order.direction # Str("desc"))

C18_Witness ==
  /\ hook.pc = "query" /\ hook.get.sent
  /\ hook.filters.keys = <<"status", "limit", "role", "offset", "order">>
  /\ hook.filters.status = Arr(<<"a", "b">>)
  /\ Len(hook.get.query.conds) = 2
  /\ hook.get.query.conds[1].op = "in"
  /\ hook.get.query.conds[2].op = "eq"
  /\ hook.get.query.order.called /\ ~hook.get.query.order.ascending

\* C19 as stated: with offset defined the range starts at offset and ends
\* at offset + limit - 1 when limit is defined and at offset + 9 when it is
\* not, and the end is never below the start for non-negative offset and
\* limit
C19_RangeEndNotBelowStart ==
  hook.pc = "query" =>
    \A q \in SentQueries :
      hook.filters.offset.type # "undefined" =>
        /\ q.range.called
        /\ q.range.from = hook.filters.offset.num
        /\ hook.filters.limit.type # "undefined" =>
             q.range.to = hook.filters.offset.num + hook.filters.limit.num - 1
        /\ hook.filters.limit.type = "undefined" =>
             q.range.to = hook.filters.offset.num + 9
        /\ q.range.to >= q.range.from

\* C19 amended: the range holds exactly limit rows (10 without limit); its
\* end is not below its start when limit is at least 1 or undefined, and is
\* one below the start, an empty range, when limit is 0
C19_RangeHoldsLimitRows ==
  hook.pc = "query" =>
    \A q \in SentQueries :
      hook.filters.offset.type # "undefined" =>
        /\ q.range.called
        /\ q.range.from = hook.filters.offset.num
        /\ hook.filters.limit.type # "undefined" =>
             /\ q.range.to = hook.filters.offset.num + hook.filters.limit.num - 1
             /\ q.range.to - q.range.from + 1 = hook.filters.limit.num
             /\ hook.filters.limit.num >= 1 => q.range.to >= q.range.from
             /\ hook.filters.limit.num = 0 => q.range.to = q.range.from - 1
        /\ hook.filters.limit.type = "undefined" =>
             /\ q.range.to = hook.filters.offset.num + 9
             /\ q.range.to - q.range.from + 1 = 10

C19_Witness ==
  /\ hook.pc = "query" /\ hook.get.sent /\ hook.lazy.sent
  /\ hook.filters.offset = Num(1) /\ hook.filters.limit = Num(2)
  /\ hook.get.query.range = [called |-> TRUE, from |-> 1, to |-> 2]
  /\ hook.lazy.query.range = [called |-> TRUE, from |-> 1, to |-> 2]

\* ---------------------------------------------------------------- C21
\* the cached keys of the list queries of the table
ListKeys(cache) == {k \in cache : Len(k) >= 2 /\ k[1] = Str(HookTable) /\ k[2] = Str("list")}

\* C21 as stated: every successful useCreate<T>, useUpdate<T> or
\* useDelete<T> mutation invalidates all the cached list queries of the
\* table, whatever options object the caller passed to the hook, one with
\* an onSuccess callback of its own included
C21_MutationInvalidatesLists ==
  hook.pc = "mutated" /\ hook.mutation.success
    /\ hook.mutation.hook \in {"useCreate", "useUpdate", "useDelete"}
    => ListKeys(hook.cache) \subseteq hook.matched

\* ---------------------------------------------------------------- C22
\* C22 as stated: useLazyGet<T>().fetch(filters, select) sends the query
\* useGet<T>(filters, { select }) sends and on success stores the rows in
\* the cache under the key useGet<T> uses for those filters and select; on
\* an error it throws and stores nothing
C22_LazyFetchSameQuerySameKey ==
  hook.pc = "query" /\ hook.lazy.sent =>
    /\ hook.lazy.query = useGetQuery(hook.filters, hook.select)
    /\ hook.get.sent => hook.lazy.query = hook.get.query
    /\ hook.lazy.outcome = "data" =>
         /\ hook.lazy.stored
         /\ hook.lazy.key = useGetKey(hook.filters, hook.select)
         /\ hook.get.sent => hook.lazy.key = hook.get.key
         /\ [key |-> useGetKey(hook.filters, hook.select), data |-> "rows"] \in hook.cache
    /\ hook.lazy.outcome = "error" =>
         /\ hook.lazy.threw /\ ~hook.lazy.stored
         /\ hook.cache = IF hook.get.sent /\ hook.get.outcome = "data"
                           THEN {[key |-> hook.get.key, data |-> "rows"]} ELSE {}

\* ---------------------------------------------------------------- C23
\* C23: after runs into the same output directory, a table's
\* hooks.ts imports './relations' and offers the with option, and its
\* index.ts re-exports './relations', exactly when the most recent run
\* extracted at least one relationship for the table
C23_RelationsIffExtracted ==
  Done =>
    \A i \in 1..Len(schema.tables) :
      LET t == schema.tables[i]
          extracted == Len(extractTableRelationships(t)) > 0
      IN /\ out.files[<<t.name, "hooks.ts">>].hasRelations <=> extracted
         /\ ("./relations" \in Range(out.files[<<t.name, "index.ts">>].exports))
              <=> extracted

\* a second run into the directory an earlier run over a table with a
\* foreign key left, again over a table that lists foreign keys
C23_Witness ==
  /\ Done
  /\ <<"functions", "old_fn">> \in out.dirs
  /\ \E i \in 1..Len(schema.tables) :
       /\ schema.tables[i].name = "users"
       /\ ListsForeignKey(schema.tables[i])
  /\ <<"users", "hooks.ts">> \in written(out)
  /\ ~out.files[<<"users", "hooks.ts">>].hasRelations
  /\ out.files[<<"users", "index.ts">>].exports = <<"./types", "./hooks">>

\* ---------------------------------------------------------------- C24
FunctionTypesFiles(w) ==
  {p \in written(w) : Len(p) = 3 /\ p[1] = "functions" /\ p[3] = "types.ts"}

\* the shared type names a cleaned type text shows without import(...) prefix
BareNames(lines) ==
  LET occurrences == Flatten(lines) IN
    {occurrences[k].name : k \in {j \in 1..Len(occurrences) : occurrences[j].form = "bare"}}

\* C24 as stated: in every functions/<name>/types.ts the run writes, each
\* shared type whose import(...) prefix was stripped from the Args or
\* Returns text is imported by the file from base-types, and every name the
\* file imports from base-types is exported by the base-types.ts this run
\* wrote
C24_FunctionTypesImportsResolved ==
  \A p \in FunctionTypesFiles(out) :
    LET f == out.files[p] IN
      /\ BareNames(f.args) \cup BareNames(f.returns) \subseteq Range(f.imports)
      /\ \A n \in Range(f.imports) :
           /\ <<"base-types.ts">> \in written(out)
           /\ n \in Range(out.files[<<"base-types.ts">>].exports)

====
